---- MODULE Spec2Model ----
(***************************************************************************)
(* Model of the FPGA_Kalman_Filter acquisition scripts.                    *)
(*                                                                         *)
(*   src/data_logger.py  host-side logger: ring buffer (times, zs, index), *)
(*                       gated publish and sample-rate estimate            *)
(*   src/main.py         pico2-ice start-up: load_bitstream, then          *)
(*                       init_sensor (register protocol, identity check,   *)
(*                       acquisition loop)                                 *)
(*                                                                         *)
(* Three specifications share the variables: SpecLogger runs               *)
(* data_logger.py, SpecMain runs main.py, SpecReg runs the register        *)
(* helpers of both files against a simulated register file.               *)
(***************************************************************************)
EXTENDS Integers, Sequences, FiniteSets, TLC

VARIABLES
    \* ---- data_logger.py ----
    WINDOW_SIZE,   \* data_logger.py:12 capacity N of both arrays
    index,         \* data_logger.py:15 write cursor
    zs,            \* data_logger.py:16 values, a sequence of N slots
    times,         \* data_logger.py:17 timestamps, a sequence of N slots
    start,         \* data_logger.py:89
    last_plot,     \* data_logger.py:90 / :99
    valid_times,   \* data_logger.py:100 last published snapshot of times
    valid_zs,      \* data_logger.py:101 last published snapshot of zs
    sample_rate,   \* data_logger.py:104 last published rate
    clock,         \* the value time.perf_counter() returned last
    lpc,           \* position of the logger script
    appended,      \* history: the <<t, z>> pairs passed to update_buffers
    gate_marks,    \* history: every value assigned to last_plot (:90, :99)
    n_gates,       \* history: evaluations of the gate (:98)
    \* ---- main.py ----
    mpc,           \* position of main.py
    success,       \* main.py:174 result of load_bitstream
    fpga_started,  \* main.py:61 fpga.start() has returned
    file_open,     \* main.py:64 the bitstream file is open
    cram_calls,    \* main.py:66 number of fpga.cram calls
    cdone,         \* level of the CDONE line (PIN_CDONE, main.py:24)
    cs,            \* main.py:90 level of the sensor chip-select pin
    txn,           \* position inside the current bus helper
    mosi,          \* bytes of the last spi.write
    spi_calls,     \* number of spi.write / spi.read calls made
    whoami,        \* main.py:129
    data,          \* main.py:138 last burst returned by read_accel
    val,           \* main.py:116 bytes returned by spi.read(1) in read_reg
    n_reads,       \* iterations of the acquisition loop begun
    raw,           \* main.py:150-152 <<x_raw, y_raw, z_raw>>
    load_raised,   \* history: <<step, exception>> raised in load_bitstream
    steps_done,    \* history: steps of load_bitstream that returned
    \* ---- register helpers against a simulated register file ----
    drv,           \* whose helpers run: "main" or "data_logger"
    reg_in,        \* the reg argument of write_reg and read_reg
    val_in,        \* the value argument of write_reg
    regfile,       \* the simulated device: address -> stored byte
    rpc,           \* position of the round trip
    wr_frame,      \* bytes write_reg put on the bus
    rd_frame,      \* bytes read_reg put on the bus
    rd_result,     \* what read_reg returned
    \* ---- the two 16-bit decoders on the same payload bytes ----
    lo_in,         \* low byte of an axis
    hi_in,         \* high byte of an axis
    dpc,           \* position of the decoding
    dec_main,      \* what main.py decodes (to_signed)
    dec_logger     \* what data_logger.py's read_accel decodes

logVars == <<WINDOW_SIZE, index, zs, times, start, last_plot, valid_times,
             valid_zs, sample_rate, clock, lpc, appended, gate_marks,
             n_gates>>

mainVars == <<mpc, success, fpga_started, file_open, cram_calls, cdone, cs,
              txn, mosi, spi_calls, whoami, data, val, n_reads, raw,
              load_raised, steps_done>>

\* the history of load_bitstream
loadHist == <<load_raised, steps_done>>

regVars == <<drv, reg_in, val_in, regfile, rpc, wr_frame, rd_frame,
             rd_result>>

decVars == <<lo_in, hi_in, dpc, dec_main, dec_logger>>

vars == <<logVars, mainVars, regVars, decVars>>

(***************************************************************************)
(* Bounds of the model.                                                    *)
(***************************************************************************)
MaxWindow == 3     \* capacities 2..MaxWindow are explored
MaxAppends == 5    \* loop iterations explored
MaxReads == 2      \* acquisition-loop iterations of main.py explored

\* What one time.perf_counter() call may add to the previous reading, in
\* units of PLOT_INTERVAL: the clock is monotonic, two readings may be equal.
Ticks == {0, 1}

\* Bursts the sensor may answer to read_accel (main.py:123): six bytes,
\* x, y, z little-endian.
AccelFrames == {<<0, 0, 0, 0, 0, 0>>, <<255, 127, 0, 128, 255, 255>>}

Bytes == 0..255

\* Frames the FPGA may answer to spi.xfer2([0]*2) (data_logger.py:38).
FpgaFrames == {<<0, 1>>, <<255, 255>>}

(***************************************************************************)
(* Python sequence indexing on a TLA+ sequence (slot i is buf[i + 1]).     *)
(***************************************************************************)
\* buf[i], a negative i counting from the end
At(buf, i) == IF i < 0 THEN buf[Len(buf) + i + 1] ELSE buf[i + 1]

\* buf[i:]
SliceFrom(buf, i) == SubSeq(buf, i + 1, Len(buf))

\* buf[:i]
SliceTo(buf, i) == SubSeq(buf, 1, i)

\* buf[i] = v
SetAt(buf, i, v) == [buf EXCEPT ![i + 1] = v]

\* np.zeros(n)
Zeros(n) == [i \in 1..n |-> 0]

(***************************************************************************)
(* data_logger.py                                                          *)
(***************************************************************************)
\* PLOT_INTERVAL = 0.5 s; the model clock counts in units of 0.5 s.
PLOT_INTERVAL == 1

\* g = 0.000061 (data_logger.py:40): values are kept in micro-g, z * 61.
G_MICRO == 61

\* int.from_bytes(data, byteorder="big", signed=True) for two bytes
FromBytesBigSigned(b) ==
    LET n == b[1] * 256 + b[2]
    IN  IF n >= 32768 THEN n - 65536 ELSE n

\* read_accel_fpga: decode the frame and scale it
read_accel_fpga(b) == FromBytesBigSigned(b) * G_MICRO

\* Mutant of update_buffer: the array is rebuilt around the new slot.
update_buffer_clears(buf, i, v) ==
    [j \in 1..Len(buf) |-> IF j = i + 1 THEN v ELSE 0]

\* Mutant of update_buffer: the write lands one slot after the cursor.
update_buffer_next_slot(buf, i, v) == SetAt(buf, (i + 1) % Len(buf), v)

\* update_buffers, one array: buf[index] = v
update_buffer(buf, i, v) == SetAt(buf, i, v)

\* Mutant of on_read_fault: the timestamp is stored before the read.
on_read_fault_stamps(buf, i, v) == SetAt(buf, i, v)

\* times after read_accel_fpga raised at data_logger.py:93, v being the
\* timestamp line 94 would have taken: nothing is stored.
on_read_fault(buf, i, v) == buf

\* Mutant of NextIndex: the cursor does not wrap.
NextIndex_no_wrap(i, n) == i + 1

\* update_buffers, the cursor: index = (index + 1) % WINDOW_SIZE
NextIndex(i, n) == (i + 1) % n

\* Mutant of read_buffer: the two halves are concatenated unrotated.
read_buffer_unrotated(buf, i) == SliceTo(buf, i) \o SliceFrom(buf, i)

\* read_buffer: np.concatenate((buf[index:], buf[:index]))
read_buffer(buf, i) == SliceFrom(buf, i) \o SliceTo(buf, i)

\* numpy float64 division: a zero divisor gives inf (and a RuntimeWarning),
\* never an exception; a finite quotient is kept as the exact pair <<n, d>>.
FloatDiv(n, d) == IF d = 0 THEN "inf" ELSE <<n, d>>

\* Mutant of RateDenominator: the slot after the cursor, not before it.
RateDenominator_after(ts, i) == At(ts, (i + 1) % Len(ts)) - At(ts, i)

\* the divisor of data_logger.py:104: times[index-1] - times[index]
RateDenominator(ts, i) == At(ts, i - 1) - At(ts, i)

\* sample_rate = WINDOW_SIZE / (times[index-1] - times[index])
SampleRate(n, ts, i) == FloatDiv(n, RateDenominator(ts, i))

\* Mutant of GateOpen: every iteration publishes.
GateOpen_always(now, last) == TRUE

\* the gate: now - last_plot > PLOT_INTERVAL
GateOpen(now, last) == now - last > PLOT_INTERVAL

\* data_logger.py is not running
IdleLogger ==
    /\ WINDOW_SIZE = 0
    /\ index = 0
    /\ zs = <<>>
    /\ times = <<>>
    /\ start = 0
    /\ last_plot = 0
    /\ valid_times = <<>>
    /\ valid_zs = <<>>
    /\ sample_rate = "none"
    /\ clock = 0
    /\ lpc = "off"
    /\ appended = <<>>
    /\ gate_marks = <<>>
    /\ n_gates = 0

\* no register round trip is running
IdleReg ==
    /\ drv = "none"
    /\ reg_in = 0
    /\ val_in = 0
    /\ regfile = <<>>
    /\ rpc = "off"
    /\ wr_frame = <<>>
    /\ rd_frame = <<>>
    /\ rd_result = <<>>

\* no decoding is running
IdleDec ==
    /\ lo_in = 0
    /\ hi_in = 0
    /\ dpc = "off"
    /\ dec_main = 0
    /\ dec_logger = 0

\* main.py is not running
IdleMain ==
    /\ mpc = "off"
    /\ success = "unset"
    /\ fpga_started = FALSE
    /\ file_open = FALSE
    /\ cram_calls = 0
    /\ cdone = FALSE
    /\ cs = 1
    /\ txn = "idle"
    /\ mosi = <<>>
    /\ spi_calls = 0
    /\ whoami = -1
    /\ data = <<>>
    /\ val = <<>>
    /\ n_reads = 0
    /\ raw = <<>>
    /\ load_raised = <<>>
    /\ steps_done = 0

\* The capacity is 500 in the source; the model explores the capacities
\* 2..MaxWindow.
InitLogger ==
    /\ IdleMain
    /\ IdleReg
    /\ IdleDec
    /\ WINDOW_SIZE \in 2..MaxWindow
    /\ index = 0
    /\ zs = Zeros(WINDOW_SIZE)
    /\ times = Zeros(WINDOW_SIZE)
    /\ start = 0
    /\ last_plot = 0
    /\ valid_times = <<>>
    /\ valid_zs = <<>>
    /\ sample_rate = "none"
    /\ clock = 0
    /\ lpc = "setup"
    /\ appended = <<>>
    /\ gate_marks = <<>>
    /\ n_gates = 0

\* data_logger.py:82-90: figure set-up, then the two clock readings. The
\* origin of perf_counter is arbitrary: the first reading is taken as 0.
StartClock ==
    /\ lpc = "setup"
    /\ \E d \in Ticks :
        /\ start' = clock
        /\ clock' = clock + d
        /\ last_plot' = clock'
        /\ gate_marks' = <<clock'>>
    /\ lpc' = "sample"
    /\ UNCHANGED <<WINDOW_SIZE, index, zs, times, valid_times, valid_zs,
                   sample_rate, appended, n_gates>>
    /\ UNCHANGED <<mainVars, regVars, decVars>>

\* data_logger.py:93-95: read one sample, stamp it, append it. When
\* spi.xfer2 raises inside read_accel_fpga the exception leaves the script
\* at line 93: lines 94-95 do not run.
AcquireSample ==
    /\ lpc = "sample"
    /\ Len(appended) < MaxAppends
    /\ \E d \in Ticks :
        LET now == clock + d
            t == now - start
        IN  \/ \E rx \in FpgaFrames :
                LET z == read_accel_fpga(rx)
                IN  /\ clock' = now
                    /\ times' = update_buffer(times, index, t)
                    /\ zs' = update_buffer(zs, index, z)
                    /\ index' = NextIndex(index, WINDOW_SIZE)
                    /\ appended' = Append(appended, <<t, z>>)
                    /\ lpc' = "gate"
            \/ /\ d = 0
               /\ times' = on_read_fault(times, index, t)
               /\ lpc' = "killed"
               /\ UNCHANGED <<clock, zs, index, appended>>
    /\ UNCHANGED <<WINDOW_SIZE, start, last_plot, valid_times, valid_zs,
                   sample_rate, gate_marks, n_gates>>
    /\ UNCHANGED <<mainVars, regVars, decVars>>

\* data_logger.py:97-105: the publish gate and, when it is open, the publish
PublishGate ==
    /\ lpc = "gate"
    /\ \E d \in Ticks :
        LET now == clock + d
        IN  /\ clock' = now
            /\ n_gates' = n_gates + 1
            /\ IF GateOpen(now, last_plot)
               THEN /\ last_plot' = now
                    /\ gate_marks' = Append(gate_marks, now)
                    /\ valid_times' = read_buffer(times, index)
                    /\ valid_zs' = read_buffer(zs, index)
                    /\ sample_rate' = SampleRate(WINDOW_SIZE, times, index)
                    /\ lpc' = "pause"
               ELSE /\ lpc' = "sample"
                    /\ UNCHANGED <<last_plot, valid_times, valid_zs,
                                   sample_rate, gate_marks>>
    /\ UNCHANGED <<WINDOW_SIZE, index, zs, times, start, appended>>
    /\ UNCHANGED <<mainVars, regVars, decVars>>

\* data_logger.py:106: plt.pause(0.001), then the next iteration
Pause ==
    /\ lpc = "pause"
    /\ lpc' = "sample"
    /\ UNCHANGED <<WINDOW_SIZE, index, zs, times, start, last_plot,
                   valid_times, valid_zs, sample_rate, clock, appended,
                   gate_marks, n_gates>>
    /\ UNCHANGED <<mainVars, regVars, decVars>>

NextLogger == StartClock \/ AcquireSample \/ PublishGate \/ Pause

SpecLogger == InitLogger /\ [][NextLogger]_vars

(***************************************************************************)
(* Bitwise operators on naturals, bit by bit.                              *)
(***************************************************************************)
RECURSIVE BitAnd(_, _)
BitAnd(a, b) ==
    IF a = 0 \/ b = 0 THEN 0
    ELSE (a % 2) * (b % 2) + 2 * BitAnd(a \div 2, b \div 2)

RECURSIVE BitOr(_, _)
BitOr(a, b) ==
    IF a = 0 THEN b
    ELSE IF b = 0 THEN a
    ELSE (IF a % 2 = 1 \/ b % 2 = 1 THEN 1 ELSE 0)
             + 2 * BitOr(a \div 2, b \div 2)

(***************************************************************************)
(* main.py                                                                 *)
(***************************************************************************)
\* The identity constant of main.py:130 (0x6B)
WHO_AM_I == 107

\* Mutant of read_addr: the R/W bit is not set.
read_addr_no_rw_bit(reg) == reg

\* read_reg, the address byte: reg | 0x80
read_addr(reg) == BitOr(reg, 128)

\* write_reg, the frame: bytearray([reg & 0x7F, val])
write_frame(reg, v) == <<BitAnd(reg, 127), v>>

\* Mutant of SuccessGate: init_sensor is called whatever load_bitstream says.
SuccessGate_always(s) == TRUE

\* main.py:177: if success
SuccessGate(s) == s = "True"

\* Mutant of IdentityOk: the comparison is skipped.
IdentityOk_skipped(w) == TRUE

\* main.py:130: the negation of whoami != 0x6B
IdentityOk(w) == w = WHO_AM_I

\* int.from_bytes(b, 'little') for two bytes (main.py:140-142)
from_bytes_little(b) == b[1] + 256 * b[2]

\* Mutant of to_signed: the sign threshold is compared with >.
to_signed_gt(n, bits) == IF n > 2 ^ (bits - 1) THEN n - 2 ^ bits ELSE n

\* main.py:145-148: to_signed(n, bits=16), 1 << k being 2 ^ k
to_signed(n, bits) == IF n >= 2 ^ (bits - 1) THEN n - 2 ^ bits ELSE n

\* Mutant of LoadCatches: only OSError is handled.
LoadCatches_oserror_only(exc) == exc = "OSError"

\* main.py:72-77: except OSError / except Exception. KeyboardInterrupt is
\* not an Exception and is not caught here.
LoadCatches(exc) == exc \in {"OSError", "Exception"}

\* main.py:162: except KeyboardInterrupt, around the while loop only
LoopCatches(exc) == exc = "KeyboardInterrupt"

LoadPcs == {"fpga_new", "fpga_start", "open_file", "cram"}

\* positions of init_sensor at which a bus helper is called
BusPcs == {"wr1", "wr2", "rd_id", "loop"}

\* positions inside the try block of main.py:136-163
LoopPcs == {"loop", "decode"}

SensorPcs == {"pin_setup", "sleep", "check_id"} \cup BusPcs \cup LoopPcs

\* which helper the call at a position runs
Helper(pc) ==
    IF pc \in {"wr1", "wr2"} THEN "write_reg"
    ELSE IF pc = "rd_id" THEN "read_reg"
    ELSE "read_accel"

\* the bytes the helper hands to spi.write
Frame(pc) ==
    CASE pc = "wr1" -> write_frame(18, 1)       \* write_reg(0x12, 0x01)
      [] pc = "wr2" -> write_frame(16, 92)      \* write_reg(0x10, 0x5C)
      [] pc = "rd_id" -> <<read_addr(15)>>      \* read_reg(0x0F)
      [] OTHER -> <<BitOr(40, 128)>>            \* read_accel: 0x28 | 0x80

\* the statement after the call at a position
AfterOp(pc) ==
    CASE pc = "wr1" -> "sleep"
      [] pc = "wr2" -> "rd_id"
      [] pc = "rd_id" -> "check_id"
      [] OTHER -> "decode"

\* where an exception raised inside init_sensor at a position lands: the
\* loop's handler prints "Stopped" and init_sensor returns; anything else
\* propagates out of the script.
Landing(pc, exc) ==
    IF pc \in LoopPcs /\ LoopCatches(exc) THEN "returned" ELSE "killed"

\* chip-select after a helper is left by an exception: write_reg has a
\* finally clause (main.py:109-110), read_reg and read_accel have none.
CsOnAbandon(pc, level) == IF Helper(pc) = "write_reg" THEN 1 ELSE level

InitMain ==
    /\ IdleLogger
    /\ IdleReg
    /\ IdleDec
    /\ mpc = "fpga_new"
    /\ success = "unset"
    /\ fpga_started = FALSE
    /\ file_open = FALSE
    /\ cram_calls = 0
    /\ cdone = FALSE
    /\ cs = 1
    /\ txn = "idle"
    /\ mosi = <<>>
    /\ spi_calls = 0
    /\ whoami = -1
    /\ data = <<>>
    /\ val = <<>>
    /\ n_reads = 0
    /\ raw = <<>>
    /\ load_raised = <<>>
    /\ steps_done = 0

\* Mutant of AfterLoadStep: cram is called before the file is opened.
AfterLoadStep_cram_first(pc) ==
    CASE pc = "fpga_new" -> "fpga_start"
      [] pc = "fpga_start" -> "cram"
      [] pc = "cram" -> "open_file"
      [] OTHER -> "main_if"

\* main.py:48-70: the statement after a step of the try block that returned
AfterLoadStep(pc) ==
    CASE pc = "fpga_new" -> "fpga_start"
      [] pc = "fpga_start" -> "open_file"
      [] pc = "open_file" -> "cram"
      [] OTHER -> "main_if"

\* how load_bitstream ends when the step at mpc raises exc
LoadRaise(exc) ==
    /\ load_raised' = <<mpc, exc>>
    /\ steps_done' = steps_done
    /\ IF LoadCatches(exc)
       THEN success' = "False" /\ mpc' = "main_if"
       ELSE success' = success /\ mpc' = "killed"

\* the step at mpc returned without raising
LoadStepDone ==
    /\ mpc' = AfterLoadStep(mpc)
    /\ steps_done' = steps_done + 1
    /\ load_raised' = load_raised
    /\ success' = IF mpc' = "main_if" THEN "True" ELSE success

\* main.py:50-58: ice.fpga(...)
FpgaNew ==
    /\ mpc = "fpga_new"
    /\ \/ LoadStepDone
       \/ \E exc \in {"OSError", "Exception"} : LoadRaise(exc)
    /\ UNCHANGED <<fpga_started, file_open, cram_calls, cdone, cs, txn,
                   mosi, spi_calls, whoami, data, val, n_reads, raw>>
    /\ UNCHANGED <<logVars, regVars, decVars>>

\* main.py:61: fpga.start()
FpgaStart ==
    /\ mpc = "fpga_start"
    /\ \/ LoadStepDone /\ fpga_started' = TRUE
       \/ /\ \E exc \in {"OSError", "Exception"} : LoadRaise(exc)
          /\ UNCHANGED fpga_started
    /\ UNCHANGED <<file_open, cram_calls, cdone, cs, txn, mosi, spi_calls,
                   whoami, data, val, n_reads, raw>>
    /\ UNCHANGED <<logVars, regVars, decVars>>

\* main.py:64: open(filename, "rb")
OpenFile ==
    /\ mpc = "open_file"
    /\ \/ LoadStepDone /\ file_open' = TRUE
       \/ /\ \E exc \in {"OSError", "Exception"} : LoadRaise(exc)
          /\ UNCHANGED file_open
    /\ UNCHANGED <<fpga_started, cram_calls, cdone, cs, txn, mosi,
                   spi_calls, whoami, data, val, n_reads, raw>>
    /\ UNCHANGED <<logVars, regVars, decVars>>

\* main.py:66-70: fpga.cram(f), the end of the with block, return True.
\* What cram returns is discarded and PIN_CDONE is never sampled by the
\* script: the level of CDONE when cram comes back is left to the device.
Cram ==
    /\ mpc = "cram"
    /\ cram_calls' = cram_calls + 1
    /\ file_open' = FALSE
    /\ cdone' \in BOOLEAN
    /\ \/ LoadStepDone
       \/ \E exc \in {"OSError", "Exception"} : LoadRaise(exc)
    /\ UNCHANGED <<fpga_started, cs, txn, mosi, spi_calls, whoami, data,
                   val, n_reads, raw>>
    /\ UNCHANGED <<logVars, regVars, decVars>>

\* main.py:177-179: if success: init_sensor()
MainIf ==
    /\ mpc = "main_if"
    /\ mpc' = IF SuccessGate(success) THEN "pin_setup" ELSE "exit"
    /\ UNCHANGED <<success, fpga_started, file_open, cram_calls, cdone, cs,
                   txn, mosi, spi_calls, whoami, data, val, n_reads>>
    /\ UNCHANGED <<raw, loadHist>>
    /\ UNCHANGED <<logVars, regVars, decVars>>

\* main.py:90-101: cs = Pin(SENSOR_CS, Pin.OUT, value=1), spi = SPI(...)
PinSetup ==
    /\ mpc = "pin_setup"
    /\ cs' = 1
    /\ mpc' = "wr1"
    /\ UNCHANGED <<success, fpga_started, file_open, cram_calls, cdone, txn,
                   mosi, spi_calls, whoami, data, val, n_reads>>
    /\ UNCHANGED <<raw, loadHist>>
    /\ UNCHANGED <<logVars, regVars, decVars>>

\* an exception leaves the helper running at mpc
Abandon(exc) ==
    /\ cs' = CsOnAbandon(mpc, cs)
    /\ txn' = "idle"
    /\ mpc' = Landing(mpc, exc)

\* cs.value(0): main.py:106, :114, :121
CsLow ==
    /\ mpc \in BusPcs
    /\ txn = "idle"
    /\ mpc = "loop" => n_reads < MaxReads
    /\ cs' = 0
    /\ txn' = "asserted"
    /\ n_reads' = IF mpc = "loop" THEN n_reads + 1 ELSE n_reads
    /\ UNCHANGED <<mpc, success, fpga_started, file_open, cram_calls, cdone,
                   mosi, spi_calls, whoami, data, val>>
    /\ UNCHANGED <<raw, loadHist>>
    /\ UNCHANGED <<logVars, regVars, decVars>>

\* spi.write(...): main.py:107, :115, :122; the transfer may fault
SpiWrite ==
    /\ mpc \in BusPcs
    /\ txn = "asserted"
    /\ mosi' = Frame(mpc)
    /\ spi_calls' = spi_calls + 1
    /\ \/ txn' = "written" /\ UNCHANGED <<cs, mpc>>
       \/ Abandon("OSError")
    /\ UNCHANGED <<success, fpga_started, file_open, cram_calls, cdone,
                   whoami, data, val, n_reads>>
    /\ UNCHANGED <<raw, loadHist>>
    /\ UNCHANGED <<logVars, regVars, decVars>>

\* spi.read(1) / spi.read(6): main.py:116, :123; the transfer may fault
SpiRead ==
    /\ mpc \in BusPcs
    /\ txn = "written"
    /\ Helper(mpc) # "write_reg"
    /\ spi_calls' = spi_calls + 1
    /\ \/ /\ txn' = "read"
          /\ IF Helper(mpc) = "read_reg"
             THEN (\E b \in Bytes : val' = <<b>>) /\ data' = data
             ELSE (\E rx \in AccelFrames : data' = rx) /\ val' = val
          /\ UNCHANGED <<cs, mpc>>
       \/ Abandon("OSError") /\ UNCHANGED <<val, data>>
    /\ UNCHANGED <<success, fpga_started, file_open, cram_calls, cdone,
                   mosi, whoami, n_reads>>
    /\ UNCHANGED <<raw, loadHist>>
    /\ UNCHANGED <<logVars, regVars, decVars>>

\* cs.value(1) and the return: main.py:110, :117-118, :124-125
CsHigh ==
    /\ mpc \in BusPcs
    /\ txn = IF Helper(mpc) = "write_reg" THEN "written" ELSE "read"
    /\ cs' = 1
    /\ txn' = "idle"
    /\ whoami' = IF mpc = "rd_id" THEN val[1] ELSE whoami
    /\ mpc' = AfterOp(mpc)
    /\ UNCHANGED <<success, fpga_started, file_open, cram_calls, cdone,
                   mosi, spi_calls, data, val, n_reads>>
    /\ UNCHANGED <<raw, loadHist>>
    /\ UNCHANGED <<logVars, regVars, decVars>>

\* main.py:127: time.sleep_ms(30)
Sleep ==
    /\ mpc = "sleep"
    /\ mpc' = "wr2"
    /\ UNCHANGED <<success, fpga_started, file_open, cram_calls, cdone, cs,
                   txn, mosi, spi_calls, whoami, data, val, n_reads>>
    /\ UNCHANGED <<raw, loadHist>>
    /\ UNCHANGED <<logVars, regVars, decVars>>

\* main.py:130-135: the identity check
CheckId ==
    /\ mpc = "check_id"
    /\ mpc' = IF IdentityOk(whoami) THEN "loop" ELSE "returned"
    /\ UNCHANGED <<success, fpga_started, file_open, cram_calls, cdone, cs,
                   txn, mosi, spi_calls, whoami, data, val, n_reads>>
    /\ UNCHANGED <<raw, loadHist>>
    /\ UNCHANGED <<logVars, regVars, decVars>>

\* main.py:140-161: decode, print, time.sleep_ms(2)
Decode ==
    /\ mpc = "decode"
    /\ raw' = <<to_signed(from_bytes_little(SubSeq(data, 1, 2)), 16),
                to_signed(from_bytes_little(SubSeq(data, 3, 4)), 16),
                to_signed(from_bytes_little(SubSeq(data, 5, 6)), 16)>>
    /\ mpc' = "loop"
    /\ UNCHANGED <<success, fpga_started, file_open, cram_calls, cdone, cs,
                   txn, mosi, spi_calls, whoami, data, val, n_reads>>
    /\ UNCHANGED loadHist
    /\ UNCHANGED <<logVars, regVars, decVars>>

\* Ctrl+C: a KeyboardInterrupt is raised at the statement being run
Interrupt ==
    /\ mpc \in LoadPcs \cup {"main_if"} \cup SensorPcs
    /\ CASE mpc \in SensorPcs ->
              Abandon("KeyboardInterrupt") /\ UNCHANGED <<success, loadHist>>
         [] mpc \in LoadPcs ->
              LoadRaise("KeyboardInterrupt") /\ UNCHANGED <<cs, txn>>
         [] OTHER ->
              mpc' = "killed" /\ UNCHANGED <<success, cs, txn, loadHist>>
    /\ UNCHANGED <<fpga_started, file_open, cram_calls, cdone, mosi,
                   spi_calls, whoami, data, val, n_reads, raw>>
    /\ UNCHANGED <<logVars, regVars, decVars>>

NextMain ==
    \/ FpgaNew \/ FpgaStart \/ OpenFile \/ Cram \/ MainIf
    \/ PinSetup \/ CsLow \/ SpiWrite \/ SpiRead \/ CsHigh
    \/ Sleep \/ CheckId \/ Decode \/ Interrupt

SpecMain == InitMain /\ [][NextMain]_vars

(***************************************************************************)
(* The register helpers of both scripts against a simulated register file. *)
(***************************************************************************)
\* data_logger.py:20: spi.xfer2([reg & 0x7F, value])
dl_write_frame(reg, value) == <<BitAnd(reg, 127), value>>

\* data_logger.py:23-24: [address] + [0]*msg_len with address = reg | 0x80
dl_read_frame(reg, msg_len) == <<BitOr(reg, 128)>> \o Zeros(msg_len)

\* main.py:115-116 on the wire: the address byte of spi.write, then the one
\* byte spi.read(1) clocks out (0x00) while it reads
read_reg_wire(reg) == <<read_addr(reg)>> \o Zeros(1)

\* main.py:116-118: val = spi.read(1) is what arrived after the address
\* phase; return val[0]
read_reg_return(rx) == At(SliceFrom(rx, 1), 0)

\* The simulated device. A frame whose first byte has bit 7 clear stores
\* its second byte at that address.
DeviceStore(rf, out) ==
    IF out[1] < 128 /\ Len(out) >= 2
    THEN [a \in DOMAIN rf \cup {out[1]} |->
             IF a = out[1] THEN out[2] ELSE rf[a]]
    ELSE rf

\* The byte stored at an address (0 after reset).
Stored(rf, a) == IF a \in DOMAIN rf THEN rf[a] ELSE 0

\* The simulated device. What it sends back: during the address phase, and
\* during a write, an undefined byte; after the address phase of a frame
\* whose first byte has bit 7 set, the stored byte.
DeviceAnswer(rf, out, dummy) ==
    [i \in 1..Len(out) |->
        IF i > 1 /\ out[1] >= 128 THEN Stored(rf, out[1] - 128) ELSE dummy]

\* the undefined byte is any of these
DummyBytes == {0, 255}

InitReg ==
    /\ IdleLogger
    /\ IdleMain
    /\ IdleDec
    /\ drv \in {"main", "data_logger"}
    /\ reg_in \in Bytes
    /\ val_in \in Bytes
    /\ regfile = <<>>
    /\ rpc = "write"
    /\ wr_frame = <<>>
    /\ rd_frame = <<>>
    /\ rd_result = <<>>

\* write_reg(reg_in, val_in): main.py:104-110, data_logger.py:19-20
RegWrite ==
    /\ rpc = "write"
    /\ LET out == IF drv = "main" THEN write_frame(reg_in, val_in)
                  ELSE dl_write_frame(reg_in, val_in)
       IN  /\ wr_frame' = out
           /\ regfile' = DeviceStore(regfile, out)
    /\ rpc' = "read"
    /\ UNCHANGED <<drv, reg_in, val_in, rd_frame, rd_result>>
    /\ UNCHANGED <<logVars, mainVars, decVars>>

\* read_reg(reg_in): main.py:113-118; read_reg(reg_in, 1):
\* data_logger.py:22-26, which returns the whole received frame
RegRead ==
    /\ rpc = "read"
    /\ \E dummy \in DummyBytes :
        LET out == IF drv = "main" THEN read_reg_wire(reg_in)
                   ELSE dl_read_frame(reg_in, 1)
            rx == DeviceAnswer(regfile, out, dummy)
        IN  /\ rd_frame' = out
            /\ rd_result' = IF drv = "main" THEN read_reg_return(rx) ELSE rx
    /\ rpc' = "done"
    /\ UNCHANGED <<drv, reg_in, val_in, regfile, wr_frame>>
    /\ UNCHANGED <<logVars, mainVars, decVars>>

NextReg == RegWrite \/ RegRead

SpecReg == InitReg /\ [][NextReg]_vars

(***************************************************************************)
(* The 16-bit decoders of both scripts on the same two payload bytes.      *)
(***************************************************************************)
\* int.from_bytes(b, byteorder="little", signed=True): two's complement
\* over 8 * len(b) bits
RECURSIVE LittleUnsigned(_)
LittleUnsigned(b) ==
    IF b = <<>> THEN 0 ELSE b[1] + 256 * LittleUnsigned(Tail(b))

FromBytesLittleSigned(b) ==
    LET n == LittleUnsigned(b)
    IN  IF n >= 2 ^ (8 * Len(b) - 1) THEN n - 2 ^ (8 * Len(b)) ELSE n

\* data_logger.py:32-33: data is the received frame of read_reg(0x2C, 2),
\* z = int.from_bytes(data[1:], byteorder="little", signed=True)
dl_read_accel_z(rx) == FromBytesLittleSigned(SliceFrom(rx, 1))

InitDecode ==
    /\ IdleLogger
    /\ IdleMain
    /\ IdleReg
    /\ lo_in \in Bytes
    /\ hi_in \in Bytes
    /\ dpc = "raw"
    /\ dec_main = 0
    /\ dec_logger = 0

\* main.py:140-152 on one axis: int.from_bytes(..., 'little'), to_signed
DecodeMain ==
    /\ dpc = "raw"
    /\ dec_main' = to_signed(from_bytes_little(<<lo_in, hi_in>>), 16)
    /\ dpc' = "main"
    /\ UNCHANGED <<lo_in, hi_in, dec_logger>>
    /\ UNCHANGED <<logVars, mainVars, regVars>>

\* data_logger.py:32-33 on the frame <<dummy, lo, hi>>
DecodeLogger ==
    /\ dpc = "main"
    /\ \E dummy \in DummyBytes :
          dec_logger' = dl_read_accel_z(<<dummy, lo_in, hi_in>>)
    /\ dpc' = "done"
    /\ UNCHANGED <<lo_in, hi_in, dec_main>>
    /\ UNCHANGED <<logVars, mainVars, regVars>>

NextDecode == DecodeMain \/ DecodeLogger

SpecDecode == InitDecode /\ [][NextDecode]_vars

(***************************************************************************)
(* History helpers for the buffer claims.                                  *)
(***************************************************************************)
AppTimes == [i \in 1..Len(appended) |-> appended[i][1]]

AppZs == [i \in 1..Len(appended) |-> appended[i][2]]

StrictlyIncreasing(s) == \A i \in 1..(Len(s) - 1) : s[i] < s[i + 1]

LastN(s, n) == SubSeq(s, Len(s) - n + 1, Len(s))

TwoDistinct(s) == \E i, j \in 1..Len(s) : s[i] # s[j]

(***************************************************************************)
(* Claims about data_logger.py, checked under SpecLogger.                  *)
(***************************************************************************)
\* C2: after N + k (k >= 0) update_buffers calls with strictly increasing
\* timestamps, read_buffer(times) has exactly N elements and they are
\* strictly increasing, wherever the write cursor is.
C2_SnapshotOrdered ==
    (Len(appended) >= WINDOW_SIZE /\ StrictlyIncreasing(AppTimes))
        => /\ Len(read_buffer(times, index)) = WINDOW_SIZE
           /\ StrictlyIncreasing(read_buffer(times, index))

\* C2 witness: a capacity-3 buffer that has wrapped, cursor in the middle.
C2_Witness ==
    /\ WINDOW_SIZE = 3
    /\ Len(appended) = 5
    /\ index = 2
    /\ StrictlyIncreasing(AppTimes)
    /\ lpc = "pause"
    /\ valid_times = read_buffer(times, index)

\* C3: after m >= N appends the snapshot is the last N appended samples in
\* insertion order, timestamps and values alike.
C3_SnapshotIsLastN ==
    Len(appended) >= WINDOW_SIZE
        => /\ read_buffer(times, index) = LastN(AppTimes, WINDOW_SIZE)
           /\ read_buffer(zs, index) = LastN(AppZs, WINDOW_SIZE)

\* C3 witness: timestamps 1,2,3,4,5 into capacity 3 give 3,4,5.
C3_Witness ==
    /\ WINDOW_SIZE = 3
    /\ AppTimes = <<1, 2, 3, 4, 5>>
    /\ read_buffer(times, index) = <<3, 4, 5>>

\* C4 (as claimed): a snapshot published before the first wrap (m < N
\* appends) is exactly the m appended samples, with no never-written slot.
C4_PreWrapSnapshot ==
    (lpc = "pause" /\ Len(appended) < WINDOW_SIZE)
        => /\ valid_times = AppTimes
           /\ valid_zs = AppZs

\* C8 (as claimed): at a publish with two distinct timestamps appended, the
\* rate is N / (newest timestamp - oldest timestamp of the valid window).
C8_RateOverWindow ==
    (lpc = "pause" /\ TwoDistinct(AppTimes))
        => LET m == Len(appended)
               valid == LastN(AppTimes, IF m < WINDOW_SIZE THEN m
                                        ELSE WINDOW_SIZE)
           IN  sample_rate =
                   FloatDiv(WINDOW_SIZE, valid[Len(valid)] - valid[1])

\* C9 (as claimed): a rate published while fewer than two distinct
\* timestamps have been appended is the undefined-rate sentinel.
C9_RateSentinel ==
    (lpc = "pause" /\ ~TwoDistinct(AppTimes)) => sample_rate = "nan"

(***************************************************************************)
(* Claims about main.py, checked under SpecMain.                           *)
(***************************************************************************)
\* C1: sensor set-up (init_sensor, any assertion of the sensor chip-select,
\* any sensor SPI transfer) happens only after load_bitstream has returned
\* True; while load_bitstream runs and after it has returned False the
\* chip-select is never asserted and no sensor transfer is made.
C1_SensorAfterLoad ==
    /\ (mpc \in SensorPcs \/ cs = 0 \/ txn # "idle" \/ spi_calls > 0)
           => (success = "True" /\ mpc \notin LoadPcs)
    /\ (success = "False" \/ mpc \in LoadPcs)
           => (cs = 1 /\ txn = "idle" /\ spi_calls = 0
               /\ mpc \notin SensorPcs)

\* C1 witness: load_bitstream returned True and a sensor transaction is in
\* flight with chip-select asserted.
C1_Witness ==
    /\ success = "True"
    /\ mpc = "wr1"
    /\ cs = 0
    /\ spi_calls = 1

\* C5 (as claimed): chip-select is low only while a bus helper is running;
\* once the helper has ended, by return or by exception, it is high.
C5_CsReleased == txn = "idle" => cs = 1

\* C6: after an identity read that returned a byte other than 0x6B there is
\* no further bus activity (no chip-select change, no SPI call, no helper
\* entered), and the acquisition loop is entered only with whoami = 0x6B.
C6_IdentityGate ==
    /\ [](mpc \in LoopPcs \/ n_reads > 0 => whoami = 107)
    /\ [][(whoami # -1 /\ whoami # 107)
              => /\ cs' = cs
                 /\ txn' = txn
                 /\ spi_calls' = spi_calls
                 /\ n_reads' = n_reads
                 /\ mpc' \notin BusPcs \cup LoopPcs]_vars

\* C6 witness: the identity read returned 0x6A and init_sensor returned
\* after the four transfers of the set-up.
C6_Witness ==
    /\ whoami = 106
    /\ mpc = "returned"
    /\ spi_calls = 4
    /\ n_reads = 0

\* C7 (as claimed): load_bitstream reports success only when CDONE was
\* asserted; with CDONE low it ends in failure and init_sensor never runs.
C7_DoneGate ==
    /\ success = "True" => cdone
    /\ (cram_calls > 0 /\ ~cdone) => mpc \notin SensorPcs

(***************************************************************************)
(* Claim about the register helpers, checked under SpecReg.                *)
(***************************************************************************)
\* C10: against the simulated register file, write_reg(a, v) followed by
\* read_reg(a) returns v; the write frame is [a & 0x7F, v] and the read
\* frame starts with a | 0x80. (data_logger's read_reg returns the received
\* frame, whose byte after the address phase is v.)
C10_RegRoundTrip ==
    /\ rpc \in {"read", "done"} => wr_frame = <<reg_in % 128, val_in>>
    /\ rpc = "done"
         => /\ rd_frame[1] = (reg_in % 128) + 128
            /\ drv = "main" => rd_result = val_in
            /\ drv = "data_logger" => At(rd_result, 1) = val_in

\* C10 witness: main.py's helpers, write_reg(0x0F, 0x6B) then read_reg(0x0F)
\* returned 0x6B.
C10_Witness ==
    /\ drv = "main"
    /\ rpc = "done"
    /\ reg_in = 15
    /\ val_in = 107
    /\ rd_result = 107

(***************************************************************************)
(* Further claims about data_logger.py, checked under SpecLogger.          *)
(***************************************************************************)
\* the update_buffers call (1-based) that wrote slot i last, 0 if none
LastWriter(i) ==
    LET ks == {k \in 1..Len(appended) : (k - 1) % WINDOW_SIZE = i}
    IN  IF ks = {} THEN 0 ELSE CHOOSE k \in ks : \A h \in ks : h <= k

\* C11: no partial sample. Every slot holds the timestamp and the value of
\* one and the same update_buffers call (or both are still initial), also
\* after a failed sensor read, which appends nothing; and a published
\* snapshot rotates times and zs by the same cursor, so position j of
\* valid_times and of valid_zs come from the same slot.
C11_NoPartialSample ==
    /\ \A i \in 0..(WINDOW_SIZE - 1) :
          LET k == LastWriter(i)
          IN  IF k = 0
              THEN At(times, i) = 0 /\ At(zs, i) = 0
              ELSE <<At(times, i), At(zs, i)>> = appended[k]
    /\ lpc = "pause"
          => /\ Len(valid_times) = WINDOW_SIZE
             /\ Len(valid_zs) = WINDOW_SIZE
             /\ \A j \in 1..WINDOW_SIZE :
                   LET slot == (index + j - 1) % WINDOW_SIZE
                   IN  /\ valid_times[j] = At(times, slot)
                       /\ valid_zs[j] = At(zs, slot)

\* C11 witness: a sensor read failed after the buffer had wrapped and a
\* snapshot had been published.
C11_Witness ==
    /\ lpc = "killed"
    /\ WINDOW_SIZE = 3
    /\ Len(appended) = 4
    /\ valid_times # <<>>

\* C13: any two consecutive values of last_plot (the loop start and every
\* publish) are more than PLOT_INTERVAL apart, and every iteration that
\* reaches the gate has appended exactly one sample, published or not.
C13_PublishCadence ==
    /\ \A i \in 1..(Len(gate_marks) - 1) :
          gate_marks[i + 1] - gate_marks[i] > PLOT_INTERVAL
    /\ lpc \in {"sample", "pause", "killed"} => Len(appended) = n_gates
    /\ lpc = "gate" => Len(appended) = n_gates + 1

\* C13 witness: two publishes, and more iterations than publishes.
C13_Witness ==
    /\ lpc = "pause"
    /\ Len(gate_marks) = 3
    /\ n_gates > 2
    /\ Len(appended) = n_gates

\* C14: the cursor stays in 0..N-1 and after m appends it is m mod N; the
\* arrays keep their N slots, so the slot update_buffers writes exists.
C14_CursorWraps ==
    /\ index \in 0..(WINDOW_SIZE - 1)
    /\ index = Len(appended) % WINDOW_SIZE
    /\ Len(times) = WINDOW_SIZE
    /\ Len(zs) = WINDOW_SIZE

\* C14 witness: capacity 3, five appends, cursor at 2 after one wrap.
C14_Witness ==
    /\ WINDOW_SIZE = 3
    /\ Len(appended) = 5
    /\ index = 2
    /\ lpc = "gate"

\* C17: once N samples are appended, times[index-1] is the newest
\* timestamp, times[index] the oldest retained one, and the divisor of the
\* rate is the last minus the first element of read_buffer(times).
C17_RateWindowEnds ==
    Len(appended) >= WINDOW_SIZE
        => LET m == Len(appended)
               rb == read_buffer(times, index)
           IN  /\ At(times, index - 1) = AppTimes[m]
               /\ At(times, index) = AppTimes[m - WINDOW_SIZE + 1]
               /\ RateDenominator(times, index) = rb[WINDOW_SIZE] - rb[1]

\* C17 witness: a publish with the cursor at 0, where index-1 is slot N-1.
C17_Witness ==
    /\ lpc = "pause"
    /\ WINDOW_SIZE = 3
    /\ Len(appended) = 3
    /\ index = 0
    /\ StrictlyIncreasing(AppTimes)

\* C18: the gate step (read_buffer and the publish) leaves the cursor and
\* both arrays as they were, and the snapshot it took equals a snapshot
\* taken again before the next append; the append step changes no slot
\* other than slot index of times and of zs.
C18_FrameEffects ==
    [][/\ lpc = "gate"
          => (index' = index /\ times' = times /\ zs' = zs)
       /\ lpc' = "pause"
          => /\ valid_times' = read_buffer(times', index')
             /\ valid_zs' = read_buffer(zs', index')
       /\ (lpc = "sample" /\ lpc' = "gate")
          => /\ Len(times') = Len(times)
             /\ Len(zs') = Len(zs)
             /\ \A i \in 0..(WINDOW_SIZE - 1) :
                   i # index => /\ At(times', i) = At(times, i)
                                /\ At(zs', i) = At(zs, i)]_vars

\* C18 witness: a snapshot published from a buffer holding two samples.
C18_Witness ==
    /\ lpc = "pause"
    /\ WINDOW_SIZE = 3
    /\ Len(appended) = 2
    /\ valid_times = read_buffer(times, index)
    /\ valid_zs = read_buffer(zs, index)

(***************************************************************************)
(* Further claims about main.py.                                           *)
(***************************************************************************)
\* the step of load_bitstream at which OSError or Exception was raised
LoadFailedAt(step) ==
    /\ load_raised # <<>>
    /\ load_raised[1] = step
    /\ load_raised[2] \in {"OSError", "Exception"}

\* C12 (SpecMain): whichever of the four steps raises OSError or another
\* Exception, load_bitstream has returned False (the exception was caught
\* inside it); it returns True exactly when all four steps returned
\* without raising, and once it has returned without an interrupt the
\* result is a boolean.
C12_LoadReturnsBoolean ==
    /\ (\E step \in LoadPcs : LoadFailedAt(step))
          => (success = "False" /\ mpc \notin LoadPcs)
    /\ success = "True" => (steps_done = 4 /\ load_raised = <<>>)
    /\ steps_done = 4 => success = "True"
    /\ (mpc \notin LoadPcs /\ load_raised = <<>>) => success = "True"
    /\ (/\ mpc \notin LoadPcs
        /\ (load_raised = <<>> \/ load_raised[2] # "KeyboardInterrupt"))
          => success \in {"True", "False"}

\* C12 witness: the file could not be opened and the script ended without
\* a crash, load_bitstream having returned False.
C12_Witness ==
    /\ LoadFailedAt("open_file")
    /\ load_raised[2] = "OSError"
    /\ success = "False"
    /\ mpc = "exit"

\* C15 (SpecMain): fpga.cram is called at most once, and only when
\* fpga.start has returned and the file is open; when opening the file
\* fails the device has been started, cram is never called and the outcome
\* is failure.
C15_HandshakeOrder ==
    /\ [](/\ cram_calls <= 1
          /\ LoadFailedAt("open_file")
                => (fpga_started /\ cram_calls = 0 /\ success = "False"))
    /\ [][cram_calls' # cram_calls
              => (fpga_started /\ file_open /\ cram_calls = 0
                  /\ steps_done = 3)]_vars

\* C15 witness: cram ran once, after start and open.
C15_Witness ==
    /\ cram_calls = 1
    /\ fpga_started
    /\ steps_done = 4
    /\ success = "True"

(***************************************************************************)
(* Claim about the decoders, checked under SpecDecode.                     *)
(***************************************************************************)
\* C16: for all bytes lo, hi, to_signed(lo + 256 * hi) lies in
\* -32768..32767, is congruent to lo + 256 * hi modulo 65536, and equals
\* what data_logger's read_accel decodes from the same two bytes.
C16_SignedDecode ==
    /\ dpc \in {"main", "done"}
          => /\ dec_main \in -32768..32767
             /\ (dec_main - (lo_in + 256 * hi_in)) % 65536 = 0
    /\ dpc = "done" => dec_logger = dec_main

\* C16 witness: the bytes 0x00, 0x80 decode to -32768 in both scripts.
C16_Witness ==
    /\ dpc = "done"
    /\ lo_in = 0
    /\ hi_in = 128
    /\ dec_main = -32768
    /\ dec_logger = -32768

====
